---- MODULE Spec2Model ----
(***************************************************************************)
(* Model of access_nri_intake: the filename redaction engine               *)
(* (BaseBuilder.parse_filename), the builder pipeline (get_assets,         *)
(* validate_parser, parse, clean_dataframe, save) and the catalog version  *)
(* registry maintained across builds.                                      *)
(*                                                                         *)
(* Strings are sequences of one-character strings; offsets are 0-based as  *)
(* in Python, so the character at offset i of s is s[i+1].                 *)
(***************************************************************************)
EXTENDS Integers, Sequences, FiniteSets, TLC

VARIABLES
    cls,             \* the builder class in use
    filename,        \* parse_filename: the filename argument
    patterns,        \* parse_filename: the patterns argument (pattern names)
    redaction_fill,  \* parse_filename: the redaction_fill argument
    fn_pc,           \* parse_filename: "call", "returned" or "raised"
    matched,         \* parse_filename: index of the pattern that matched, 0 if none
    spans,           \* parse_filename: spans of the match's redaction groups
    redacted,        \* parse_filename: file_id as the pattern loop leaves it
    file_id,         \* parse_filename: returned file id
    timestamp,       \* parse_filename: returned timestamp (None when absent)
    frequency,       \* parse_filename: returned frequency (None when absent)
    second           \* parse_filename called on the returned file_id: Nothing before

fnVars ==
    <<cls, filename, patterns, redaction_fill, fn_pc, matched, spans, redacted, file_id,
      timestamp, frequency, second>>

VARIABLES
    builder,         \* the class of the builder object
    files,           \* the files under the builder's paths: files[p] is the kind of file p
    assets,          \* self.assets: Nothing before get_assets, else the asset list
    df,              \* self.df: the table, a sequence of rows
    invalid_assets,  \* self.invalid_assets: the sentinel rows set aside by clean_dataframe
    artifact,        \* what save has persisted: Nothing, or the table and the invalid assets
    script,          \* the calls build() has still to make, <<>> outside build()
    steps,           \* the calls the current or last build() has made
    raised,          \* the exception the last call raised, "none" if it returned
    last,            \* the last call that returned or raised, "none" before any
    built,           \* build(): "none", "running", "returned" or the exception it raised
    stage,           \* how far the table has come: "CREATED", "PARSED", "CLEANED"
    parsing,         \* the parallel parse is under way
    pending,         \* parse: tasks not yet dispatched
    running,         \* parse: tasks a worker is executing
    results,         \* parse: the row each finished task returned
    failed           \* parse: the exception that escaped a task, "none" if none did

bdVars ==
    <<builder, files, assets, df, invalid_assets, artifact, script, steps, raised, last,
      built, stage, parsing, pending, running, results, failed>>

\* access_nri_intake.cli.build over a catalog store
VARIABLES
    catalog_yaml,    \* the version registry: Nothing, or Some of versions, min, max, default
    version_dirs,    \* the version stamps that have a directory under build_base_path
    catalogs,        \* version stamp -> the catalog materialised under it, or Nothing
    previous,        \* the content of the immediately preceding build, or Nothing
    args,            \* the build request: version, config_yaml, force, no_update
    staged,          \* the sources of the request processed so far
    outcome,         \* of the last request: "none", "running", "failed", "done"
    before,          \* the store as the running or last request found it
    \* --- _check_build_args ---
    args_list,       \* the configured sources of a build request
    check_pc,        \* "idle", "call", "returned", "raised"
    excinfo,         \* the sources a MetadataCheckError names: Nothing when none is raised
    \* --- parse_ncfile ---
    nc_cls,          \* the class parse_ncfile is called on
    nc_file,         \* the file and, for MopperBuilder, what exargs holds of it
    nc_pc,           \* position in parse_ncfile
    ds,              \* the dataset handle: "unbound", "open", "closed"
    dvars,           \* the number of variables appended to dvars
    nc_exc,          \* the exception in flight or raised, "none" when there is none
    \* --- parser of AccessOm3Builder and Mom6Builder ---
    pr_cls,          \* the class parser is called on
    pr_filename,     \* the name of the file
    pr_ncfile,       \* the exception parse_ncfile raises on the file, "none" if it returns
    pr_pc,           \* "idle", "call", "returned"
    ncinfo_dict      \* the dict parser returns: Nothing before

rgVars == <<catalog_yaml, version_dirs, catalogs, previous, args, staged, outcome, before>>

caVars == <<args_list, check_pc, excinfo>>

ncVars == <<nc_cls, nc_file, nc_pc, ds, dvars, nc_exc>>

prVars == <<pr_cls, pr_filename, pr_ncfile, pr_pc, ncinfo_dict>>

vars == <<fnVars, bdVars, rgVars, caVars, ncVars, prVars>>

\* ------------------------------------------------------------------------
\* Regular expressions (Python's re, backtracking, leftmost alternative and
\* greedy repetition first)
\* ------------------------------------------------------------------------

Digits == {"0", "1", "2", "3", "4", "5", "6", "7", "8", "9"}

Lit(ch) == [t |-> "set", neg |-> FALSE, cs |-> {ch}]
OneOf(S) == [t |-> "set", neg |-> FALSE, cs |-> S]
NoneOf(S) == [t |-> "set", neg |-> TRUE, cs |-> S]
Digit == OneOf(Digits)
NonDigit == NoneOf(Digits)
AnyChar == NoneOf({"\n"})
Cat(xs) == [t |-> "cat", xs |-> xs]
Alt(xs) == [t |-> "alt", xs |-> xs]
Star(x) == [t |-> "star", greedy |-> TRUE, x |-> x]
LazyStar(x) == [t |-> "star", greedy |-> FALSE, x |-> x]
Grp(name, x) == [t |-> "grp", name |-> name, x |-> x]
Bol == [t |-> "bol"]
Eol == [t |-> "eol"]
Ahead(x) == [t |-> "look", neg |-> FALSE, x |-> x]
NotAhead(x) == [t |-> "look", neg |-> TRUE, x |-> x]
Rep(x, n) == Cat([k \in 1..n |-> x])
Word(w) == Cat([k \in 1..Len(w) |-> Lit(w[k])])

TIMESTAMP_GROUP == "ts"
MOM6_GROUP == "mom6_added_timestamp"
GroupNames == {TIMESTAMP_GROUP, MOM6_GROUP}

\* a group that is not defined by the pattern is absent from the match; one
\* that is defined but took no part in the match has span <<-1, -1>>
NoGroups == [g \in GroupNames |-> <<-1, -1>>]

\* F(v), with v evaluated once (TLC passes arguments by name)
Let(v, F(_)) == CHOOSE r \in {F(x) : x \in {v}} : TRUE

\* the concatenation of the sequences of ss
RECURSIVE Flat(_)
Flat(ss) ==
    Let(ss, LAMBDA x :
        IF Len(x) = 0 THEN <<>>
        ELSE IF Len(x) = 1 THEN x[1]
        ELSE Flat(SubSeq(x, 1, Len(x) \div 2)) \o Flat(SubSeq(x, Len(x) \div 2 + 1, Len(x))))

\* f(q[1]) \o ... \o f(q[Len(q)])
FlatMap(q, f(_)) == Let(q, LAMBDA x : Flat([k \in 1..Len(x) |-> f(x[k])] \o <<>>))

\* All ways re matches s from offset i, in the order the backtracking
\* matcher tries them: a sequence of [e |-> end offset, c |-> group spans].
RECURSIVE M(_, _, _, _)
M(re, s, i, c) ==
    CASE re.t = "set" ->
            IF i < Len(s) /\ ((s[i + 1] \in re.cs) # re.neg)
            THEN <<[e |-> i + 1, c |-> c]>> ELSE <<>>
      [] re.t = "bol" -> IF i = 0 THEN <<[e |-> i, c |-> c]>> ELSE <<>>
      [] re.t = "eol" -> IF i = Len(s) THEN <<[e |-> i, c |-> c]>> ELSE <<>>
      [] re.t = "look" ->
            IF (Len(M(re.x, s, i, c)) > 0) # re.neg
            THEN <<[e |-> i, c |-> c]>> ELSE <<>>
      [] re.t = "grp" ->
            FlatMap(M(re.x, s, i, c),
                    LAMBDA r : <<[e |-> r.e, c |-> [r.c EXCEPT ![re.name] = <<i, r.e>>]]>>)
      [] re.t = "alt" ->
            FlatMap(re.xs, LAMBDA x : M(x, s, i, c))
      [] re.t = "cat" ->
            IF Len(re.xs) = 0 THEN <<[e |-> i, c |-> c]>>
            ELSE FlatMap(M(Head(re.xs), s, i, c),
                         LAMBDA r : M(Cat(Tail(re.xs)), s, r.e, r.c))
      [] re.t = "star" ->
            \* re.x is a character class: the run of characters in the class
            \* from offset i, longest first when greedy
            Let(CHOOSE n \in 0..(Len(s) - i) :
                    /\ \A j \in 1..n : (s[i + j] \in re.x.cs) # re.x.neg
                    /\ n < Len(s) - i => ~((s[i + n + 1] \in re.x.cs) # re.x.neg),
                LAMBDA run : [k \in 1..(run + 1) |->
                                 [e |-> IF re.greedy THEN i + run + 1 - k ELSE i + k - 1,
                                  c |-> c]] \o <<>>)

\* Python's None and a present value, for results that may be absent
Nothing == <<>>
Some(v) == <<v>>

\* re.search in place of re.match: the first match at the least offset
re_search(pattern, s) ==
    Let({i \in 0..Len(s) : Len(M(pattern, s, i, NoGroups)) > 0},
        LAMBDA at : IF at = {} THEN Nothing
                    ELSE Some(M(pattern, s, CHOOSE i \in at : \A j \in at : i <= j, NoGroups)[1]))

\* re.match(pattern, s): the first match anchored at offset 0, or Nothing
re_match(pattern, s) ==
    Let(M(pattern, s, 0, NoGroups), LAMBDA r : IF Len(r) = 0 THEN Nothing ELSE Some(r[1]))

\* the named groups a pattern defines: the keys of match.groupdict()
RECURSIVE GroupsOf(_)
GroupsOf(re) ==
    CASE re.t = "grp" -> {re.name} \cup GroupsOf(re.x)
      [] re.t \in {"cat", "alt"} -> UNION {GroupsOf(re.xs[k]) : k \in 1..Len(re.xs)}
      [] re.t \in {"star", "look"} -> GroupsOf(re.x)
      [] OTHER -> {}

\* ------------------------------------------------------------------------
\* builders.py: FREQUENCIES, PATTERNS_HELPERS and the builders' PATTERNS
\* ------------------------------------------------------------------------

Sep == OneOf({"_", ",", "-"})

not_multi_digit ==
    Alt(<<Cat(<<Digit, NotAhead(Digit)>>),
          Cat(<<NonDigit, Ahead(Digit)>>),
          Cat(<<NonDigit, NotAhead(Digit)>>)>>)
om3_components ==
    Alt(<<Word(<<"c", "i", "c", "e">>), Word(<<"m", "o", "m", "6">>), Word(<<"w", "w", "3">>)>>)
mom6_components == Alt(<<Word(<<"o", "c", "e", "a", "n">>), Word(<<"i", "c", "e">>)>>)
mom6_added_timestamp == Cat(<<Rep(Digit, 4), Lit("_"), Rep(Digit, 3)>>)
ymds == Cat(<<Rep(Digit, 4), Sep, Rep(Digit, 2), Sep, Rep(Digit, 2), Sep, Rep(Digit, 5)>>)
ymd == Cat(<<Rep(Digit, 4), Sep, Rep(Digit, 2), Sep, Rep(Digit, 2)>>)
ymd_ns == Cat(<<Rep(Digit, 4), Rep(Digit, 2), Rep(Digit, 2)>>)
ym == Cat(<<Rep(Digit, 4), Sep, Rep(Digit, 2)>>)
y == Rep(Digit, 4)

iceh == Word(<<"i", "c", "e", "h">>)
ocean == Word(<<"o", "c", "e", "a", "n">>)

\* ^iceh.*\.(?P<ts>ymd|ym)$
P_ice ==
    Cat(<<Bol, iceh, Star(AnyChar), Lit("."), Grp(TIMESTAMP_GROUP, Alt(<<ymd, ym>>)), Eol>>)
\* ^iceh.*\.(?P<ts>\d{3})-(not_multi_digit).*
P_om2_ice ==
    Cat(<<Bol, iceh, Star(AnyChar), Lit("."), Grp(TIMESTAMP_GROUP, Rep(Digit, 3)), Lit("-"),
          not_multi_digit, Star(AnyChar)>>)
\* ^ocean.*[_,-](?:ymd|ym|y)_(?P<ts>ymd|ym|y)(?:$|[_,-]not_multi_digit.*)
P_om2_ocean ==
    Cat(<<Bol, ocean, Star(AnyChar), Sep,
          Alt(<<Word(<<"y", "m", "d">>), Word(<<"y", "m">>), Word(<<"y">>)>>), Lit("_"),
          Grp(TIMESTAMP_GROUP, Alt(<<ymd, ym, y>>)),
          Alt(<<Eol, Cat(<<Sep, not_multi_digit, Star(AnyChar)>>)>>)>>)
\* ^ocean.*([^\d])_(?P<ts>\d{2})$
P_om2_weird ==
    Cat(<<Bol, ocean, Star(AnyChar), NonDigit, Lit("_"), Grp(TIMESTAMP_GROUP, Rep(Digit, 2)), Eol>>)
\* [^\.]*\.om3_components\..*?(?P<ts>ymds|ymd|ym|y)(?:$|not_multi_digit)
P_om3 ==
    Cat(<<Star(NoneOf({"."})), Lit("."), om3_components, Lit("."), LazyStar(AnyChar),
          Grp(TIMESTAMP_GROUP, Alt(<<ymds, ymd, ym, y>>)), Alt(<<Eol, not_multi_digit>>)>>)
\* [^\.]*(?P<ts>ymd-ns)\.mom6_components.*(?P<mom6_added_timestamp>(\d{4}_\d{3})).*$
P_mom6_snapshot ==
    Cat(<<Star(NoneOf({"."})), Grp(TIMESTAMP_GROUP, ymd_ns), Lit("."), mom6_components,
          Star(AnyChar), Grp(MOM6_GROUP, mom6_added_timestamp), Star(AnyChar), Eol>>)
\* [^\.]*(?P<ts>ymd-ns)\.mom6_components.*$
P_mom6_basic ==
    Cat(<<Star(NoneOf({"."})), Grp(TIMESTAMP_GROUP, ymd_ns), Lit("."), mom6_components,
          Star(AnyChar), Eol>>)
\* ^.*\.p.-(?P<ts>\d{6})_.*
P_esm_atmos ==
    Cat(<<Bol, Star(AnyChar), Lit("."), Lit("p"), AnyChar, Lit("-"),
          Grp(TIMESTAMP_GROUP, Rep(Digit, 6)), Lit("_"), Star(AnyChar)>>)
\* ^iceh.*\.(?P<ts>ym)-not_multi_digit.*
P_cm2_ice ==
    Cat(<<Bol, iceh, Star(AnyChar), Lit("."), Grp(TIMESTAMP_GROUP, ym), Lit("-"),
          not_multi_digit, Star(AnyChar)>>)
\* ^.*\.p.(?P<ts>\d{6})_.*
P_cm2_atmos ==
    Cat(<<Bol, Star(AnyChar), Lit("."), Lit("p"), AnyChar,
          Grp(TIMESTAMP_GROUP, Rep(Digit, 6)), Lit("_"), Star(AnyChar)>>)

PatternNames ==
    {"ice", "om2_ice", "om2_ocean", "om2_weird", "om3", "mom6_snapshot", "mom6_basic",
     "esm_atmos", "cm2_ice", "cm2_atmos"}

Pattern(n) ==
    CASE n = "ice" -> P_ice
      [] n = "om2_ice" -> P_om2_ice
      [] n = "om2_ocean" -> P_om2_ocean
      [] n = "om2_weird" -> P_om2_weird
      [] n = "om3" -> P_om3
      [] n = "mom6_snapshot" -> P_mom6_snapshot
      [] n = "mom6_basic" -> P_mom6_basic
      [] n = "esm_atmos" -> P_esm_atmos
      [] n = "cm2_ice" -> P_cm2_ice
      [] n = "cm2_atmos" -> P_cm2_atmos

FilenameBuilders ==
    {"BaseBuilder", "AccessOm2Builder", "AccessOm3Builder", "Mom6Builder",
     "AccessEsm15Builder", "AccessCm2Builder"}

\* cls.PATTERNS
PATTERNS(c) ==
    CASE c = "AccessOm2Builder" -> <<"ice", "om2_ice", "om2_ocean", "om2_weird">>
      [] c = "AccessOm3Builder" -> <<"om3">>
      [] c = "Mom6Builder" -> <<"mom6_snapshot", "mom6_basic">>
      [] c = "AccessEsm15Builder" -> <<"ice", "esm_atmos">>
      [] c = "AccessCm2Builder" -> <<"ice", "cm2_ice", "cm2_atmos">>
      [] OTHER -> <<>>

\* cls.REDACTION_GROUPS
REDACTION_GROUPS(c) ==
    IF c = "Mom6Builder" THEN <<TIMESTAMP_GROUP, MOM6_GROUP>> ELSE <<TIMESTAMP_GROUP>>

\* FREQUENCIES, in the dict's order: <<text, followed by $, value>>
FREQUENCIES ==
    <<<<<<"d", "a", "i", "l", "y">>, FALSE, <<1, "day">>>>,
      <<<<"_", "d", "a", "i">>, TRUE, <<1, "day">>>>,
      <<<<"m", "o", "n", "t", "h">>, FALSE, <<1, "mon">>>>,
      <<<<"_", "m", "o", "n">>, TRUE, <<1, "mon">>>>,
      <<<<"1", "m", "o", "n">>, FALSE, <<1, "mon">>>>,
      <<<<"y", "e", "a", "r", "l", "y">>, FALSE, <<1, "yr">>>>,
      <<<<"a", "n", "n", "u", "a", "l">>, FALSE, <<1, "yr">>>>,
      <<<<"_", "a", "n", "n">>, TRUE, <<1, "yr">>>>>>

\* ------------------------------------------------------------------------
\* BaseBuilder.parse_filename
\* ------------------------------------------------------------------------

Min(a, b) == IF a < b THEN a ELSE b
Max(a, b) == IF a > b THEN a ELSE b

\* s[:n] and s[n:] for n >= 0
Take(s, n) == Let(s, LAMBDA x : SubSeq(x, 1, Min(n, Len(x))))
Drop(s, n) == Let(s, LAMBDA x : SubSeq(x, Min(n, Len(x)) + 1, Len(x)))

\* a redaction that leaves the digit 0 in place
RedactDigitsButZero(fill, text) ==
    FlatMap(text, LAMBDA ch : IF ch \in Digits \ {"0"} THEN fill ELSE <<ch>>)

\* re.sub(r"\d", fill, text)
RedactDigits(fill, text) ==
    FlatMap(text, LAMBDA ch : IF ch \in Digits THEN fill ELSE <<ch>>)

\* re.search of the text w, anchored at the end of s when atEnd
Search(w, atEnd, s) ==
    \E i \in 0..(Len(s) - Len(w)) :
        /\ SubSeq(s, i + 1, i + Len(w)) = w
        /\ atEnd => i + Len(w) = Len(s)

\* the frequency loop: the first entry of FREQUENCIES found in the filename
FindFrequency(fname) ==
    Let({k \in 1..Len(FREQUENCIES) : Search(FREQUENCIES[k][1], FREQUENCIES[k][2], fname)},
        LAMBDA hits : IF hits = {} THEN Nothing
                      ELSE Some(FREQUENCIES[CHOOSE k \in hits : \A j \in hits : k <= j][3]))

\* a pattern loop without its break: the last pattern that matches
LastMatching(pats, fname) ==
    Let({k \in 1..Len(pats) : re_match(Pattern(pats[k]), fname) # Nothing},
        LAMBDA hits : IF hits = {} THEN 0 ELSE CHOOSE k \in hits : \A j \in hits : k >= j)

\* the pattern loop: index of the first pattern that matches, 0 when none does
FirstMatching(pats, fname) ==
    Let({k \in 1..Len(pats) : re_match(Pattern(pats[k]), fname) # Nothing},
        LAMBDA hits : IF hits = {} THEN 0 ELSE CHOOSE k \in hits : \A j \in hits : k <= j)

\* the groups of cls.REDACTION_GROUPS found in match.groupdict(), in order
RedactedGroups(c, pat) == SelectSeq(REDACTION_GROUPS(c), LAMBDA g : g \in GroupsOf(pat))

\* one turn of the loop over cls.REDACTION_GROUPS: the group's text, taken
\* from the matched string orig, has its digits replaced and is spliced into
\* fid at the group's offsets in orig
RedactGroup(fid, orig, span, fill) ==
    Let(fid, LAMBDA f :
        Take(f, span[1]) \o RedactDigits(fill, Drop(Take(orig, span[2]), span[1]))
           \o Drop(f, span[2]))

\* the loop over cls.REDACTION_GROUPS; m is the match on the string orig
RECURSIVE RedactGroups(_, _, _, _, _)
RedactGroups(fid, orig, m, groups, fill) ==
    IF Len(groups) = 0 THEN fid
    ELSE RedactGroups(RedactGroup(fid, orig, m.c[Head(groups)], fill),
                      orig, m, Tail(groups), fill)

\* re.sub(r"[-.]", "_", s)
ReplaceSeparators(s) ==
    FlatMap(s, LAMBDA ch : IF ch \in {"-", "."} THEN <<"_">> ELSE <<ch>>)

\* re.sub(r"_+", "_", s)
CollapseUnderscores(s) ==
    Let(s, LAMBDA x :
        FlatMap([k \in 1..Len(x) |-> k],
                LAMBDA k : IF x[k] = "_" /\ k > 1 /\ x[k - 1] = "_" THEN <<>> ELSE <<x[k]>>))

\* s.lstrip("_")
StripLeading(s) ==
    Let(s, LAMBDA x :
        Let({k \in 1..Len(x) : x[k] # "_"},
            LAMBDA keep : IF keep = {} THEN <<>>
                          ELSE SubSeq(x, CHOOSE k \in keep : \A j \in keep : k <= j, Len(x))))

\* s.strip("_")
Strip(s) ==
    Let(s, LAMBDA x :
        Let({k \in 1..Len(x) : x[k] # "_"},
            LAMBDA keep : IF keep = {} THEN <<>>
                          ELSE SubSeq(x, CHOOSE k \in keep : \A j \in keep : k <= j,
                                         CHOOSE k \in keep : \A j \in keep : k >= j)))

\* the strip made before the separators are replaced
NormaliseStripFirst(s) == CollapseUnderscores(ReplaceSeparators(Strip(s)))

\* lines 305-306: separators replaced, underscores collapsed, ends stripped
Normalise(s) == Strip(CollapseUnderscores(ReplaceSeparators(s)))

\* the body of parse_filename once the pattern loop has found pattern k
ParseMatched(c, fname, k, pat, m, groups, fill) ==
    IF TIMESTAMP_GROUP \notin GroupsOf(pat) \/ \E j \in 1..Len(groups) : m.c[groups[j]][1] < 0
    THEN [raised |-> TRUE, matched |-> k, spans |-> {}, redacted |-> fname,
          file_id |-> Nothing, timestamp |-> Nothing, frequency |-> Nothing]
    ELSE Let(RedactGroups(fname, fname, m, groups, fill), LAMBDA red :
             [raised |-> FALSE, matched |-> k,
              spans |-> {m.c[groups[j]] : j \in 1..Len(groups)},
              redacted |-> red,
              file_id |-> Some(Normalise(red)),
              timestamp |-> Some(Drop(Take(fname, m.c[TIMESTAMP_GROUP][2]),
                                      m.c[TIMESTAMP_GROUP][1])),
              frequency |-> FindFrequency(fname)])

\* parse_filename(filename, patterns, FREQUENCIES, redaction_fill) of class c.
\* It raises when the matching pattern has no group named ts (match.group
\* raises IndexError) or a redaction group took no part in the match
\* (match.group is None and re.sub raises TypeError).
parse_filename(c, fname, pats, fill) ==
    Let(FirstMatching(pats, fname), LAMBDA k :
        IF k = 0
        THEN [raised |-> FALSE, matched |-> 0, spans |-> {}, redacted |-> fname,
              file_id |-> Some(Normalise(fname)), timestamp |-> Nothing,
              frequency |-> FindFrequency(fname)]
        ELSE Let(re_match(Pattern(pats[k]), fname)[1], LAMBDA m :
                 ParseMatched(c, fname, k, Pattern(pats[k]), m,
                              RedactedGroups(c, Pattern(pats[k])), fill)))

\* ------------------------------------------------------------------------
\* parse_filename as a state machine: the arguments are drawn in the initial
\* state, ParseFilename is the call
\* ------------------------------------------------------------------------

MaxTokens == 2

FilenameTokens(c) ==
    CASE c = "AccessOm2Builder" ->
            {<<"i", "c", "e", "h">>, <<"o", "c", "e", "a", "n">>,
             <<".", "1", "9", "9", "1", "-", "0", "1">>, <<".", "0", "5", "7", "-", "d">>,
             <<"_", "y", "m", "_", "1", "9", "9", "0", "_", "0", "1">>,
             <<"-", "y", "_", "1", "9", "9", "0">>, <<"a", "_", "0", "5">>, <<"-", "3", "d">>,
             <<"o", "c", "e", "a", "n", "-", "y", "_", "1", "9", "9", "0">>}
      [] c = "AccessOm3Builder" ->
            {<<".", "m", "o", "m", "6">>, <<".", "w", "w", "3">>, <<".", "h", "_">>,
             <<".", "1", "9", "0", "0", "-", "0", "1">>, <<"-", "0", "2">>,
             <<"-", "0", "0", "0", "0", "0">>, <<"_", "1", "9", "0", "0">>, <<"x">>}
      [] c = "Mom6Builder" ->
            {<<"1", "9", "0", "0", "0", "1", "0", "1", ".", "o", "c", "e", "a", "n">>,
             <<"1", "9", "0", "0", "0", "1", "0", "1", ".", "i", "c", "e">>,
             <<"_", "d", "a", "i", "l", "y">>,
             <<"_", "1", "9", "0", "0", "_", "0", "0", "1">>, <<"_", "1", "9", "0", "0">>,
             <<"x">>, <<"_", "3">>, <<".", "o", "c", "e", "a", "n">>}
      [] c = "AccessEsm15Builder" ->
            {<<"i", "c", "e", "h">>, <<".", "1", "9", "9", "1", "-", "0", "1">>, <<"a">>,
             <<".", "p", "a", "-", "1", "8", "5", "0", "0", "1", "_">>,
             <<".", "p", "m", "1", "8", "5", "0", "0", "1", "_">>, <<"_", "m", "o", "n">>,
             <<"-", "0", "2">>, <<"-", "d">>}
      [] c = "AccessCm2Builder" ->
            {<<"i", "c", "e", "h">>, <<".", "1", "9", "9", "1", "-", "0", "1">>,
             <<".", "1", "9", "9", "1", "-", "0", "1", "-", "d">>, <<"a">>,
             <<".", "p", "m", "1", "8", "5", "0", "0", "1", "_">>, <<"_", "m", "o", "n">>,
             <<"-", "0", "2">>, <<".", "p", "a", "-", "1", "8", "5", "0", "0", "1", "_">>}
      [] OTHER -> {<<"a">>, <<"-">>, <<".">>, <<"_">>, <<"1">>, <<"_", "_", "b", "2">>}

\* the filenames of class c: up to MaxTokens tokens, concatenated
RECURSIVE Filenames(_, _)
Filenames(c, n) ==
    IF n = 0 THEN {<<>>}
    ELSE Filenames(c, n - 1)
         \cup {f \o t : f \in Filenames(c, n - 1), t \in FilenameTokens(c)}

Reverse(q) == [k \in 1..Len(q) |-> q[Len(q) + 1 - k]]

\* the patterns argument: None (the class's PATTERNS), or the list reversed
PatternLists(c) == {PATTERNS(c), Reverse(PATTERNS(c))}

\* the redaction_fill argument: the default, another character, a digit
Fills == {<<"X">>, <<"_">>, <<"7">>}

FilenameIdle ==
    /\ cls = "BaseBuilder"
    /\ filename = <<>>
    /\ patterns = <<>>
    /\ redaction_fill = <<"X">>
    /\ fn_pc = "idle"
    /\ matched = 0
    /\ spans = {}
    /\ redacted = <<>>
    /\ file_id = Nothing
    /\ timestamp = Nothing
    /\ frequency = Nothing
    /\ second = Nothing

PipelineIdle ==
    /\ builder = "BaseBuilder"
    /\ files = <<>>
    /\ assets = Nothing
    /\ df = <<>>
    /\ invalid_assets = <<>>
    /\ artifact = Nothing
    /\ script = <<>>
    /\ steps = <<>>
    /\ raised = "none"
    /\ last = "none"
    /\ built = "none"
    /\ stage = "CREATED"
    /\ parsing = FALSE
    /\ pending = {}
    /\ running = {}
    /\ results = <<>>
    /\ failed = "none"

RegistryIdle ==
    /\ catalog_yaml = Nothing
    /\ version_dirs = {}
    /\ catalogs = <<>>
    /\ previous = Nothing
    /\ args = Nothing
    /\ staged = <<>>
    /\ outcome = "none"
    /\ before = Nothing

CheckArgsIdle ==
    /\ args_list = <<>>
    /\ check_pc = "idle"
    /\ excinfo = Nothing

NcfileIdle ==
    /\ nc_cls = "BaseBuilder"
    /\ nc_file = <<>>
    /\ nc_pc = "idle"
    /\ ds = "unbound"
    /\ dvars = 0
    /\ nc_exc = "none"

ParserIdle ==
    /\ pr_cls = "AccessOm3Builder"
    /\ pr_filename = <<>>
    /\ pr_ncfile = "none"
    /\ pr_pc = "idle"
    /\ ncinfo_dict = Nothing

InitFilename ==
    /\ cls \in FilenameBuilders
    /\ filename \in Filenames(cls, MaxTokens)
    /\ patterns \in PatternLists(cls)
    /\ redaction_fill \in Fills
    /\ fn_pc = "call"
    /\ matched = 0
    /\ spans = {}
    /\ redacted = <<>>
    /\ file_id = Nothing
    /\ timestamp = Nothing
    /\ frequency = Nothing
    /\ second = Nothing
    /\ PipelineIdle
    /\ RegistryIdle
    /\ CheckArgsIdle
    /\ NcfileIdle
    /\ ParserIdle

ParseFilename ==
    /\ fn_pc = "call"
    /\ \E r \in {parse_filename(cls, filename, patterns, redaction_fill)} :
          /\ fn_pc' = IF r.raised THEN "raised" ELSE "returned"
          /\ matched' = r.matched
          /\ spans' = r.spans
          /\ redacted' = r.redacted
          /\ file_id' = r.file_id
          /\ timestamp' = r.timestamp
          /\ frequency' = r.frequency
    /\ UNCHANGED <<cls, filename, patterns, redaction_fill, second, bdVars, rgVars, caVars, ncVars, prVars>>

\* parse_filename is called again, on the file_id it returned, with the same
\* patterns and redaction_fill
ParseFileId ==
    /\ fn_pc = "returned"
    /\ fn_pc' = "again"
    /\ second' = Some(parse_filename(cls, file_id[1], patterns, redaction_fill)) \o <<>>
    /\ UNCHANGED <<cls, filename, patterns, redaction_fill, matched, spans, redacted, file_id,
                   timestamp, frequency, bdVars, rgVars, caVars, ncVars, prVars>>

NextFilename == ParseFilename \/ ParseFileId

SpecFilename == InitFilename /\ [][NextFilename]_vars

\* ------------------------------------------------------------------------
\* The builder pipeline: ecgtools.Builder as BaseBuilder uses it, and the
\* builders' parsers
\* ------------------------------------------------------------------------

MaxAssets == 2
NJobs == 2

\* the builder families
Builders ==
    {"AccessOm2Builder", "AccessOm3Builder", "Mom6Builder", "AccessEsm15Builder",
     "AccessCm2Builder", "MopperBuilder"}

\* what a file is to the parser: a file that parses into a record that meets
\* the schema ("ok") or does not ("badschema"), a file that cannot be opened,
\* one none of whose variables has a long_name, one whose path or name gives
\* no realm
FileKinds == {"ok", "badschema", "unreadable", "empty", "norealm"}

INVALID_ASSET == "INVALID_ASSET"
TRACEBACK == "TRACEBACK"

\* rows of the table; a column a row lacks holds Null, as in a DataFrame
Null == 0
Record(p, conforms) ==
    [path |-> p, conforms |-> conforms, INVALID_ASSET |-> Null, TRACEBACK |-> "none"]
Sentinel(p, trace) ==
    [path |-> Null, conforms |-> FALSE, INVALID_ASSET |-> p, TRACEBACK |-> trace]
IsSentinel(row) == row.INVALID_ASSET # Null

\* BaseBuilder.parse_ncfile on a file of kind k: the exception it raises, or "none"
parse_ncfile(k) ==
    CASE k = "unreadable" -> "OSError"
      [] k = "empty" -> "EmptyFileError"
      [] OTHER -> "none"

\* MopperBuilder.parse_ncfile called as parser calls it, with exargs = {}:
\* variable is "", and ds[""] raises KeyError once the file is open
Mopper_parse_ncfile(k) == IF k = "unreadable" THEN "OSError" ELSE "KeyError"

\* the exception raised in the parser's try block for a file of kind k, "none"
\* if the block reaches its return
TryBlock(c, k) ==
    CASE c = "AccessOm2Builder" ->
            \* realm is unbound when the path does not match
            IF k = "norealm" THEN "UnboundLocalError" ELSE parse_ncfile(k)
      [] c \in {"AccessOm3Builder", "Mom6Builder"} ->
            IF parse_ncfile(k) # "none" THEN parse_ncfile(k)
            ELSE IF k = "norealm" THEN "ParserError" ELSE "none"
      [] c \in {"AccessEsm15Builder", "AccessCm2Builder"} ->
            \* re.match(...) is None when the path does not match
            IF k = "norealm" THEN "AttributeError" ELSE parse_ncfile(k)

\* cls.parser(file) for file p of kind k: [exc, row]; exc is the exception that
\* leaves the parser, "none" when it returns row
Parser(c, p, k) ==
    IF c = "MopperBuilder"
    THEN [exc |-> Mopper_parse_ncfile(k), row |-> Sentinel(p, "none")]
    ELSE IF TryBlock(c, k) # "none"
    THEN [exc |-> "none", row |-> Sentinel(p, TryBlock(c, k))]
    ELSE [exc |-> "none", row |-> Record(p, k = "ok")]

\* validate_against_schema(info, ESM_JSONSCHEMA): the exception it raises
validate_against_schema(row) == IF row.conforms THEN "none" ELSE "ValidationError"

\* a call of the builder's interface may start outside build(), or when it is
\* the call build() makes next
MayCall(op) == ~parsing /\ (IF script = <<>> THEN TRUE ELSE Head(script) = op)
Returns(op) ==
    /\ raised' = "none"
    /\ last' = op
    /\ script' = IF script = <<>> THEN <<>> ELSE Tail(script)
    /\ steps' = IF script = <<>> THEN steps ELSE Append(steps, op)
    /\ built' = IF Len(script) = 1 THEN "returned" ELSE built
Raises(op, exc) ==
    /\ raised' = exc
    /\ last' = op
    /\ script' = <<>>
    /\ steps' = IF script = <<>> THEN steps ELSE Append(steps, op)
    /\ built' = IF script = <<>> THEN built ELSE exc

\* Builder.get_assets: the sorted, deduplicated files under the paths
GetAssets ==
    /\ MayCall("get_assets")
    /\ assets' = Some([p \in 1..Len(files) |-> p])
    /\ Returns("get_assets")
    /\ UNCHANGED <<builder, files, stage, df, invalid_assets, artifact, parsing, pending, running,
                   results, failed>>

NoAssets == IF assets = Nothing THEN TRUE ELSE Len(assets[1]) = 0

\* the loop of validate_parser: the exception that ends it, "none" when the
\* first asset that is not a sentinel meets the schema
\* a probe that lets a batch of sentinels through
RECURSIVE ProbeFromLenient(_, _, _)
ProbeFromLenient(c, as, i) ==
    IF i > Len(as) THEN "none"
    ELSE LET info == Parser(c, as[i], files[as[i]])
         IN IF info.exc # "none" THEN info.exc
            ELSE IF ~IsSentinel(info.row) THEN validate_against_schema(info.row)
            ELSE ProbeFromLenient(c, as, i + 1)

\* a probe that checks every record that is not a sentinel against the schema
RECURSIVE ProbeFromEvery(_, _, _)
ProbeFromEvery(c, as, i) ==
    IF i > Len(as)
    THEN IF \A k \in 1..Len(as) : IsSentinel(Parser(c, as[k], files[as[k]]).row)
         THEN "ParserError" ELSE "none"
    ELSE LET info == Parser(c, as[i], files[as[i]])
         IN IF info.exc # "none" THEN info.exc
            ELSE IF ~IsSentinel(info.row) /\ validate_against_schema(info.row) # "none"
            THEN validate_against_schema(info.row)
            ELSE ProbeFromEvery(c, as, i + 1)

\* the loop of validate_parser from asset i on: the exception it ends with,
\* "none" if it returns
RECURSIVE ProbeFrom(_, _, _)
ProbeFrom(c, as, i) ==
    IF i > Len(as) THEN "ParserError"
    ELSE LET info == Parser(c, as[i], files[as[i]])
         IN IF info.exc # "none" THEN info.exc
            ELSE IF ~IsSentinel(info.row) THEN validate_against_schema(info.row)
            ELSE ProbeFrom(c, as, i + 1)

\* BaseBuilder.validate_parser
ValidateParser ==
    /\ MayCall("validate_parser")
    /\ LET exc == IF NoAssets THEN "ValueError" ELSE ProbeFrom(builder, assets[1], 1)
       IN IF exc = "none" THEN Returns("validate_parser")
          ELSE Raises("validate_parser", exc)
    /\ UNCHANGED <<builder, files, stage, assets, df, invalid_assets, artifact, parsing, pending,
                   running, results, failed>>

\* BaseBuilder.parse -> Builder.parse: without assets it raises, else it hands
\* one task per asset to joblib.Parallel
ParseStart ==
    /\ MayCall("parse")
    /\ IF NoAssets
       THEN /\ Raises("parse", "ValueError")
            /\ UNCHANGED <<parsing, pending, running, results, failed>>
       ELSE /\ parsing' = TRUE
            /\ pending' = 1..Len(assets[1])
            /\ running' = {}
            /\ results' = [i \in 1..Len(assets[1]) |-> Nothing]
            /\ failed' = "none"
            /\ UNCHANGED <<script, steps, raised, last, built>>
    /\ UNCHANGED <<builder, files, stage, assets, df, invalid_assets, artifact>>

\* a worker takes a task
Dispatch(i) ==
    /\ parsing /\ failed = "none"
    /\ i \in pending
    /\ Cardinality(running) < NJobs
    /\ pending' = pending \ {i}
    /\ running' = running \cup {i}
    /\ UNCHANGED <<builder, files, assets, df, invalid_assets, artifact, script, steps, raised,
                   last, built, stage,
                   parsing, results, failed>>

\* a worker finishes its task: parsing_func(asset) returns a row or raises
Complete(i) ==
    /\ parsing /\ failed = "none"
    /\ i \in running
    /\ running' = running \ {i}
    /\ LET info == Parser(builder, assets[1][i], files[assets[1][i]])
       IN IF info.exc = "none"
          THEN results' = [results EXCEPT ![i] = Some(info.row)] /\ UNCHANGED failed
          ELSE failed' = info.exc /\ UNCHANGED results
    /\ UNCHANGED <<builder, files, assets, df, invalid_assets, artifact, script, steps, raised,
                   last, built, stage,
                   parsing, pending>>

\* every task has returned: the entries, in the order of the assets, become
\* the table
ParseJoin ==
    /\ parsing /\ failed = "none"
    /\ pending = {} /\ running = {}
    /\ df' = [i \in 1..Len(results) |-> results[i][1]]
    /\ parsing' = FALSE
    /\ stage' = "PARSED"
    /\ Returns("parse")
    /\ UNCHANGED <<builder, files, assets, invalid_assets, artifact, pending, running, results,
                   failed>>

\* a task raised: joblib.Parallel raises its exception in the caller and
\* gives up the tasks that are left
ParseAbort ==
    /\ parsing /\ failed # "none"
    /\ parsing' = FALSE
    /\ pending' = {}
    /\ running' = {}
    /\ Raises("parse", failed)
    /\ UNCHANGED <<builder, files, stage, assets, df, invalid_assets, artifact, results, failed>>

\* a clean_dataframe that drops the sentinel rows without keeping them
CleanDataframeDropping ==
    /\ MayCall("clean_dataframe")
    /\ df' = SelectSeq(df, LAMBDA row : ~IsSentinel(row))
    /\ UNCHANGED invalid_assets
    /\ stage' = IF stage = "CREATED" THEN "CREATED" ELSE "CLEANED"
    /\ Returns("clean_dataframe")
    /\ UNCHANGED <<builder, files, assets, artifact, parsing, pending, running, results,
                   failed>>


\* Builder.clean_dataframe: when the table has the INVALID_ASSET column the
\* sentinel rows move to invalid_assets
CleanDataframe ==
    /\ MayCall("clean_dataframe")
    /\ IF \E i \in 1..Len(df) : IsSentinel(df[i])
       THEN /\ invalid_assets' = SelectSeq(df, IsSentinel)
            /\ df' = SelectSeq(df, LAMBDA row : ~IsSentinel(row))
       ELSE UNCHANGED <<df, invalid_assets>>
    /\ stage' = IF stage = "CREATED" THEN "CREATED" ELSE "CLEANED"
    /\ Returns("clean_dataframe")
    /\ UNCHANGED <<builder, files, assets, artifact, parsing, pending, running, results,
                   failed>>

\* BaseBuilder.save: refuses an empty table, else _save writes the table and
\* the invalid assets
Save ==
    /\ MayCall("save")
    /\ script = <<>>
    /\ IF Len(df) = 0
       THEN Raises("save", "ValueError") /\ UNCHANGED artifact
       ELSE /\ artifact' = Some([table |-> df, invalid |-> invalid_assets])
            /\ Returns("save")
    /\ UNCHANGED <<builder, files, stage, assets, df, invalid_assets, parsing, pending, running,
                   results, failed>>

\* a build() that parses the batch before it validates the parser
BuildParseFirst ==
    /\ ~parsing /\ script = <<>>
    /\ script' = <<"get_assets", "parse", "validate_parser", "clean_dataframe">>
    /\ steps' = <<>>
    /\ raised' = "none"
    /\ built' = "running"
    /\ UNCHANGED <<builder, files, last, stage, assets, df, invalid_assets, artifact, parsing, pending,
                   running, results, failed>>

\* BaseBuilder.build: get_assets().validate_parser().parse().clean_dataframe()
Build ==
    /\ ~parsing /\ script = <<>>
    /\ script' = <<"get_assets", "validate_parser", "parse", "clean_dataframe">>
    /\ steps' = <<>>
    /\ raised' = "none"
    /\ built' = "running"
    /\ UNCHANGED <<builder, files, last, stage, assets, df, invalid_assets, artifact, parsing, pending,
                   running, results, failed>>

RECURSIVE SeqsUpTo(_, _)
SeqsUpTo(S, n) ==
    IF n = 0 THEN {<<>>}
    ELSE SeqsUpTo(S, n - 1) \cup {Append(q, x) : q \in SeqsUpTo(S, n - 1), x \in S}

InitBuild ==
    /\ builder \in Builders
    /\ files \in SeqsUpTo(FileKinds, MaxAssets)
    /\ assets = Nothing
    /\ df = <<>>
    /\ invalid_assets = <<>>
    /\ artifact = Nothing
    /\ script = <<>>
    /\ steps = <<>>
    /\ raised = "none"
    /\ last = "none"
    /\ built = "none"
    /\ stage = "CREATED"
    /\ parsing = FALSE
    /\ pending = {}
    /\ running = {}
    /\ results = <<>>
    /\ failed = "none"
    /\ FilenameIdle
    /\ RegistryIdle
    /\ CheckArgsIdle
    /\ NcfileIdle
    /\ ParserIdle

NextBuild ==
    \/ (GetAssets /\ UNCHANGED <<fnVars, rgVars, caVars, ncVars, prVars>>)
    \/ (ValidateParser /\ UNCHANGED <<fnVars, rgVars, caVars, ncVars, prVars>>)
    \/ (ParseStart /\ UNCHANGED <<fnVars, rgVars, caVars, ncVars, prVars>>)
    \/ (\E i \in 1..MaxAssets : Dispatch(i) /\ UNCHANGED <<fnVars, rgVars, caVars, ncVars, prVars>>)
    \/ (\E i \in 1..MaxAssets : Complete(i) /\ UNCHANGED <<fnVars, rgVars, caVars, ncVars, prVars>>)
    \/ (ParseJoin /\ UNCHANGED <<fnVars, rgVars, caVars, ncVars, prVars>>)
    \/ (ParseAbort /\ UNCHANGED <<fnVars, rgVars, caVars, ncVars, prVars>>)
    \/ (CleanDataframe /\ UNCHANGED <<fnVars, rgVars, caVars, ncVars, prVars>>)
    \/ (Save /\ UNCHANGED <<fnVars, rgVars, caVars, ncVars, prVars>>)
    \/ (Build /\ UNCHANGED <<fnVars, rgVars, caVars, ncVars, prVars>>)

SpecBuild == InitBuild /\ [][NextBuild]_vars

\* ------------------------------------------------------------------------
\* The catalog store and its version registry (cli.build)
\* ------------------------------------------------------------------------

MaxStamp == 3
Stamps == 1..MaxStamp

\* the lists of configured sources a request may name
Configs == {<<"access-om2">>, <<"access-om2", "cmip5">>}

Least(S) == CHOOSE a \in S : \A b \in S : a <= b
Greatest(S) == CHOOSE a \in S : \A b \in S : a >= b

\* min0 and max0: from the registry document or, without one, from the
\* version-stamped directories; the stamp of the request when there is neither
PreviousMin(yaml, dirs, v) ==
    IF yaml # Nothing THEN yaml[1].min ELSE IF dirs # {} THEN Least(dirs) ELSE v
PreviousMax(yaml, dirs, v) ==
    IF yaml # Nothing THEN yaml[1].max ELSE IF dirs # {} THEN Greatest(dirs) ELSE v
PreviousVersions(yaml, dirs) == IF yaml # Nothing THEN yaml[1].versions ELSE dirs

\* a min pointer that follows the request
NewMinLatest(min0, v) == v
\* the pointers written for a request with stamp v
NewMin(min0, v) == Min(min0, v)

\* a max pointer that follows the request
NewMaxLatest(max0, v) == v
NewMax(max0, v) == Max(max0, v)

\* a default pointer that follows max
NewDefaultMax(mx, v) == mx
NewDefault(mx, v) == v

\* the equality rule: the same row set as the immediately preceding build
UnchangedNever(content) == FALSE
Unchanged(content) == previous = Some(content)

UpdatedRegistry(yaml, dirs, v) ==
    Some([versions |-> PreviousVersions(yaml, dirs) \cup {v},
          min |-> NewMin(PreviousMin(yaml, dirs, v), v),
          max |-> NewMax(PreviousMax(yaml, dirs, v), v),
          default |-> NewDefault(NewMax(PreviousMax(yaml, dirs, v), v), v)])

\* build() is called with a version stamp and a list of sources
StartBuild(v, config, force, no_update) ==
    /\ outcome # "running"
    /\ args' = Some([version |-> v, config_yaml |-> config, force |-> force,
                     no_update |-> no_update])
    /\ staged' = <<>>
    /\ outcome' = "running"
    /\ before' = Some([catalog_yaml |-> catalog_yaml, version_dirs |-> version_dirs,
                       catalogs |-> catalogs, previous |-> previous])
    /\ UNCHANGED <<catalog_yaml, version_dirs, catalogs, previous>>

\* a source that publishes its part of the registry as soon as it is built
ProcessSourcePublishing ==
    /\ outcome = "running"
    /\ Len(staged) < Len(args[1].config_yaml)
    /\ staged' = Append(staged, args[1].config_yaml[Len(staged) + 1])
    /\ catalog_yaml' = IF args[1].no_update THEN catalog_yaml
                       ELSE UpdatedRegistry(catalog_yaml, version_dirs, args[1].version)
    /\ UNCHANGED <<version_dirs, catalogs, previous, args, outcome, before>>

\* the next source of the request is built
ProcessSource ==
    /\ outcome = "running"
    /\ Len(staged) < Len(args[1].config_yaml)
    /\ staged' = Append(staged, args[1].config_yaml[Len(staged) + 1])
    /\ UNCHANGED <<catalog_yaml, version_dirs, catalogs, previous, args, outcome, before>>

\* building the next source fails: the request ends
FailSource ==
    /\ outcome = "running"
    /\ Len(staged) < Len(args[1].config_yaml)
    /\ outcome' = "failed"
    /\ UNCHANGED <<catalog_yaml, version_dirs, catalogs, previous, args, staged, before>>

\* a commit that updates the registry whatever the request says
CommitUpdating ==
    /\ outcome = "running"
    /\ Len(staged) = Len(args[1].config_yaml)
    /\ LET v == args[1].version
           write == args[1].force \/ ~Unchanged(staged)
       IN /\ catalogs' = IF write THEN [x \in Stamps |-> IF x = v THEN Some(staged) ELSE catalogs[x]]
                         ELSE catalogs
          /\ version_dirs' = IF write THEN version_dirs \cup {v} ELSE version_dirs
          /\ catalog_yaml' = UpdatedRegistry(catalog_yaml, version_dirs, v)
    /\ previous' = Some(staged)
    /\ outcome' = "done"
    /\ UNCHANGED <<args, staged, before>>

\* all sources are built: the catalog is written under the stamp unless it is
\* unchanged and not forced, and the registry is updated unless no_update
Commit ==
    /\ outcome = "running"
    /\ Len(staged) = Len(args[1].config_yaml)
    /\ LET v == args[1].version
           write == args[1].force \/ ~Unchanged(staged)
       IN /\ catalogs' = IF write THEN [x \in Stamps |-> IF x = v THEN Some(staged) ELSE catalogs[x]]
                         ELSE catalogs
          /\ version_dirs' = IF write THEN version_dirs \cup {v} ELSE version_dirs
          /\ catalog_yaml' = IF args[1].no_update THEN catalog_yaml
                             ELSE UpdatedRegistry(catalog_yaml, version_dirs, v)
    /\ previous' = Some(staged)
    /\ outcome' = "done"
    /\ UNCHANGED <<args, staged, before>>

InitRegistry ==
    /\ catalog_yaml = Nothing
    /\ version_dirs \in SUBSET Stamps
    /\ catalogs = [x \in Stamps |-> Nothing]
    /\ previous = Nothing
    /\ args = Nothing
    /\ staged = <<>>
    /\ outcome = "none"
    /\ before = Nothing
    /\ FilenameIdle
    /\ PipelineIdle
    /\ CheckArgsIdle
    /\ NcfileIdle
    /\ ParserIdle

NextRegistry ==
    \/ (\E v \in Stamps, config \in Configs, force \in BOOLEAN, no_update \in BOOLEAN :
            StartBuild(v, config, force, no_update) /\ UNCHANGED <<fnVars, bdVars, caVars, ncVars, prVars>>)
    \/ (ProcessSource /\ UNCHANGED <<fnVars, bdVars, caVars, ncVars, prVars>>)
    \/ (FailSource /\ UNCHANGED <<fnVars, bdVars, caVars, ncVars, prVars>>)
    \/ (Commit /\ UNCHANGED <<fnVars, bdVars, caVars, ncVars, prVars>>)

SpecRegistry == InitRegistry /\ [][NextRegistry]_vars

\* ------------------------------------------------------------------------
\* _check_build_args: the check of the configured sources of a build request
\* ------------------------------------------------------------------------

MaxSources == 3

\* the names and experiment uuids of the sources
SourceNames == {"exp0", "exp1"}
Uuids == {"214e8e6d", "7b0bc2c6"}

\* a configured source
Source(n, u) == [name |-> n, metadata |-> [experiment_uuid |-> u]]
Sources == {Source(n, u) : n \in SourceNames, u \in Uuids}

\* the positions of a list whose element occurs at an earlier position too
Repeats(l) == {j \in 1..Len(l) : \E i \in 1..(j - 1) : l[i] = l[j]}

\* a check of the names alone
check_build_names(al) ==
    LET names == [i \in 1..Len(al) |-> al[i].name]
    IN IF Repeats(names) # {}
       THEN Some({names[j] : j \in Repeats(names)})
       ELSE Nothing

\* _check_build_args: Nothing when it returns, else the names of the sources
\* that the MetadataCheckError names: the repeated names, or, the names being
\* distinct, the names of the sources that share an experiment_uuid
check_build_args(al) ==
    LET names == [i \in 1..Len(al) |-> al[i].name]
        uuids == [i \in 1..Len(al) |-> al[i].metadata.experiment_uuid]
    IN IF Repeats(names) # {}
       THEN Some({names[j] : j \in Repeats(names)})
       ELSE IF Repeats(uuids) # {}
       THEN Some({names[i] : i \in {k \in 1..Len(al) :
                                        \E j \in Repeats(uuids) : uuids[k] = uuids[j]}})
       ELSE Nothing

InitCheckArgs ==
    /\ args_list \in SeqsUpTo(Sources, MaxSources)
    /\ check_pc = "call"
    /\ excinfo = Nothing
    /\ FilenameIdle
    /\ PipelineIdle
    /\ RegistryIdle
    /\ NcfileIdle
    /\ ParserIdle

CheckBuildArgs ==
    /\ check_pc = "call"
    /\ excinfo' = check_build_args(args_list)
    /\ check_pc' = IF excinfo' = Nothing THEN "returned" ELSE "raised"
    /\ UNCHANGED <<args_list, fnVars, bdVars, rgVars, ncVars, prVars>>

NextCheckArgs == CheckBuildArgs

SpecCheckArgs == InitCheckArgs /\ [][NextCheckArgs]_vars

\* ------------------------------------------------------------------------
\* parse_ncfile, step by step: BaseBuilder.parse_ncfile and
\* MopperBuilder.parse_ncfile
\* ------------------------------------------------------------------------

MaxVars == 2

NcfileBuilders == {"BaseBuilder", "MopperBuilder"}

\* a file as BaseBuilder.parse_ncfile meets it: whether xr.open_dataset opens
\* it, the number of its variables, the variable whose attributes cannot be
\* read (0: none), whether the time parser fails on it; and as
\* MopperBuilder.parse_ncfile meets it: whether it opens, exargs' date_range
\* ("": absent, "ok": two dates, "bad": not two dates of the format) and
\* whether the dataset has exargs' variable
NcFiles(c) ==
    IF c = "BaseBuilder"
    THEN {f \in [readable : BOOLEAN, nvars : 0..MaxVars, bad_attrs : 0..MaxVars,
                  bad_time : BOOLEAN, date_range : {""}, has_variable : {TRUE}] :
              f.bad_attrs <= f.nvars}
    ELSE [readable : BOOLEAN, nvars : {1}, bad_attrs : {0}, bad_time : {FALSE},
          date_range : {"", "ok", "bad"}, has_variable : BOOLEAN]

InitNcfile ==
    /\ nc_cls \in NcfileBuilders
    /\ nc_file \in NcFiles(nc_cls)
    /\ nc_pc = "call"
    /\ ds = "unbound"
    /\ dvars = 0
    /\ nc_exc = "none"
    /\ FilenameIdle
    /\ PipelineIdle
    /\ RegistryIdle
    /\ CheckArgsIdle
    /\ ParserIdle

\* BaseBuilder: cls.parse_filename(file_path.stem)
ParseStem ==
    /\ nc_pc = "call" /\ nc_cls = "BaseBuilder"
    /\ nc_pc' = "open"
    /\ UNCHANGED <<nc_cls, nc_file, ds, dvars, nc_exc>>

\* MopperBuilder: the dates of exargs' date_range; split or strptime raises
\* ValueError on a range that is not two dates
ParseDates ==
    /\ nc_pc = "call" /\ nc_cls = "MopperBuilder"
    /\ IF nc_file.date_range = "bad"
       THEN nc_exc' = "ValueError" /\ nc_pc' = "raised"
       ELSE nc_exc' = nc_exc /\ nc_pc' = "open"
    /\ UNCHANGED <<nc_cls, nc_file, ds, dvars>>

\* with xr.open_dataset(...) as ds: the block is entered with an open handle,
\* or open_dataset raises and there is no handle
OpenDataset ==
    /\ nc_pc = "open"
    /\ IF nc_file.readable
       THEN ds' = "open" /\ nc_exc' = nc_exc /\ nc_pc' = "block"
       ELSE ds' = ds /\ nc_exc' = "OSError" /\ nc_pc' = "raised"
    /\ UNCHANGED <<nc_cls, nc_file, dvars>>

\* BaseBuilder: one turn of the loop over ds.variables
AppendAttrs ==
    /\ nc_pc = "block" /\ nc_cls = "BaseBuilder"
    /\ dvars < nc_file.nvars
    /\ IF nc_file.bad_attrs = dvars + 1
       THEN dvars' = dvars /\ nc_exc' = "AttributeError" /\ nc_pc' = "exit"
       ELSE dvars' = dvars + 1 /\ nc_exc' = nc_exc /\ nc_pc' = nc_pc
    /\ UNCHANGED <<nc_cls, nc_file, ds>>

\* BaseBuilder: cls.TIME_PARSER(ds, filename_frequency, time_dim)(), the last
\* statement of the block
TimeParser ==
    /\ nc_pc = "block" /\ nc_cls = "BaseBuilder"
    /\ dvars = nc_file.nvars
    /\ nc_exc' = IF nc_file.bad_time THEN "GenericTimeParsingError" ELSE nc_exc
    /\ nc_pc' = "exit"
    /\ UNCHANGED <<nc_cls, nc_file, ds, dvars>>

\* MopperBuilder: ds[variable].attrs and ds.attrs, the whole block
ReadVariable ==
    /\ nc_pc = "block" /\ nc_cls = "MopperBuilder"
    /\ nc_exc' = IF nc_file.has_variable THEN nc_exc ELSE "KeyError"
    /\ nc_pc' = "exit"
    /\ UNCHANGED <<nc_cls, nc_file, ds, dvars>>

\* a block exit that closes the handle only when the block ends normally
WithExitLeaking ==
    /\ nc_pc = "exit"
    /\ ds' = IF nc_exc = "none" THEN "closed" ELSE ds
    /\ nc_pc' = IF nc_exc = "none" THEN "after" ELSE "raised"
    /\ UNCHANGED <<nc_cls, nc_file, dvars, nc_exc>>

\* the end of the with block: Dataset.__exit__ closes the handle, then the
\* exception in flight, if any, leaves parse_ncfile
WithExit ==
    /\ nc_pc = "exit"
    /\ ds' = "closed"
    /\ nc_pc' = IF nc_exc = "none" THEN "after" ELSE "raised"
    /\ UNCHANGED <<nc_cls, nc_file, dvars, nc_exc>>

\* BaseBuilder: if not dvars.variable_list: raise EmptyFileError, else the
\* _NCFileInfo is returned
CheckEmpty ==
    /\ nc_pc = "after" /\ nc_cls = "BaseBuilder"
    /\ IF dvars = 0
       THEN nc_exc' = "EmptyFileError" /\ nc_pc' = "raised"
       ELSE nc_exc' = nc_exc /\ nc_pc' = "returned"
    /\ UNCHANGED <<nc_cls, nc_file, ds, dvars>>

\* MopperBuilder: return output_nc_info, exargs
ReturnInfo ==
    /\ nc_pc = "after" /\ nc_cls = "MopperBuilder"
    /\ nc_pc' = "returned"
    /\ UNCHANGED <<nc_cls, nc_file, ds, dvars, nc_exc>>

NextNcfile ==
    \/ (ParseStem /\ UNCHANGED <<fnVars, bdVars, rgVars, caVars, prVars>>)
    \/ (ParseDates /\ UNCHANGED <<fnVars, bdVars, rgVars, caVars, prVars>>)
    \/ (OpenDataset /\ UNCHANGED <<fnVars, bdVars, rgVars, caVars, prVars>>)
    \/ (AppendAttrs /\ UNCHANGED <<fnVars, bdVars, rgVars, caVars, prVars>>)
    \/ (TimeParser /\ UNCHANGED <<fnVars, bdVars, rgVars, caVars, prVars>>)
    \/ (ReadVariable /\ UNCHANGED <<fnVars, bdVars, rgVars, caVars, prVars>>)
    \/ (WithExit /\ UNCHANGED <<fnVars, bdVars, rgVars, caVars, prVars>>)
    \/ (CheckEmpty /\ UNCHANGED <<fnVars, bdVars, rgVars, caVars, prVars>>)
    \/ (ReturnInfo /\ UNCHANGED <<fnVars, bdVars, rgVars, caVars, prVars>>)

SpecNcfile == InitNcfile /\ [][NextNcfile]_vars

\* ------------------------------------------------------------------------
\* AccessOm3Builder.parser and Mom6Builder.parser: the realm of a file
\* ------------------------------------------------------------------------

MaxParts == 2

RealmBuilders == {"AccessOm3Builder", "Mom6Builder"}

\* sub in s, for strings
Contains(sub, s) ==
    \E i \in 0..(Len(s) - Len(sub)) : SubSeq(s, i + 1, i + Len(sub)) = sub

S_mom6 == <<"m", "o", "m", "6">>
S_ww3 == <<"w", "w", "3">>
S_cice == <<"c", "i", "c", "e">>
S_ocean == <<"o", "c", "e", "a", "n">>
S_ice == <<"i", "c", "e">>

\* the parts file names are made of
NameParts == {S_mom6, S_ww3, S_cice, S_ocean, S_ice, <<"c">>, <<"x", "_">>}

RECURSIVE NamesOf(_)
NamesOf(n) ==
    IF n = 0 THEN {<<>>}
    ELSE NamesOf(n - 1) \cup {f \o t : f \in NamesOf(n - 1), t \in NameParts}

\* file_path.name of the files: parts, then the extension
RealmFilenames == {f \o <<".", "n", "c">> : f \in NamesOf(MaxParts)}

\* the chain taken from its last test to its first
RealmOfLastFirst(c, name) ==
    IF c = "AccessOm3Builder"
    THEN IF Contains(S_cice, name) THEN Some("seaIce")
         ELSE IF Contains(S_ww3, name) THEN Some("wave")
         ELSE IF Contains(S_mom6, name) THEN Some("ocean")
         ELSE Nothing
    ELSE IF Contains(S_ice, name) THEN Some("seaIce")
         ELSE IF Contains(S_ocean, name) THEN Some("ocean")
         ELSE Nothing

\* the if/elif chain of the parser of class c on ncinfo_dict["filename"]:
\* the realm, Nothing where the chain raises ParserError
RealmOf(c, name) ==
    IF c = "AccessOm3Builder"
    THEN IF Contains(S_mom6, name) THEN Some("ocean")
         ELSE IF Contains(S_ww3, name) THEN Some("wave")
         ELSE IF Contains(S_cice, name) THEN Some("seaIce")
         ELSE Nothing
    ELSE IF Contains(S_ocean, name) THEN Some("ocean")
         ELSE IF Contains(S_ice, name) THEN Some("seaIce")
         ELSE Nothing

InitParser ==
    /\ pr_cls \in RealmBuilders
    /\ pr_filename \in RealmFilenames
    /\ pr_ncfile \in {"none", "OSError", "EmptyFileError"}
    /\ pr_pc = "call"
    /\ ncinfo_dict = Nothing
    /\ FilenameIdle
    /\ PipelineIdle
    /\ RegistryIdle
    /\ CheckArgsIdle
    /\ NcfileIdle

\* cls.parser(file): the try block, and the except clause that turns any
\* exception raised in it into the sentinel
CallParser ==
    /\ pr_pc = "call"
    /\ pr_pc' = "returned"
    /\ ncinfo_dict' =
          IF pr_ncfile # "none"
          THEN Some([INVALID_ASSET |-> pr_filename, TRACEBACK |-> pr_ncfile])
          ELSE IF RealmOf(pr_cls, pr_filename) = Nothing
          THEN Some([INVALID_ASSET |-> pr_filename, TRACEBACK |-> "ParserError"])
          ELSE Some([filename |-> pr_filename, realm |-> RealmOf(pr_cls, pr_filename)[1]])
    /\ UNCHANGED <<pr_cls, pr_filename, pr_ncfile, fnVars, bdVars, rgVars, caVars, ncVars>>

NextParser == CallParser

SpecParser == InitParser /\ [][NextParser]_vars


\* ------------------------------------------------------------------------
\* Properties of parse_filename
\* ------------------------------------------------------------------------

\* the characters of s, each paired with whether its offset lies in a span
Tagged(s, sps) ==
    [k \in 1..Len(s) |-> <<s[k], \E sp \in sps : sp[1] <= k - 1 /\ k - 1 < sp[2]>>]

\* the final normalisation of file_id, carried out on tagged characters
TaggedNormalise(q) ==
    LET rep == [k \in 1..Len(q) |-> <<IF q[k][1] \in {"-", "."} THEN "_" ELSE q[k][1], q[k][2]>>]
        kept == {k \in 1..Len(q) : ~(rep[k][1] = "_" /\ k > 1 /\ rep[k - 1][1] = "_")}
        body == {k \in kept : rep[k][1] # "_"}
        lo == CHOOSE k \in body : \A j \in body : k <= j
        hi == CHOOSE k \in body : \A j \in body : k >= j
        idx == {k \in kept : lo <= k /\ k <= hi}
        nth(n) == CHOOSE k \in idx : Cardinality({j \in idx : j <= k}) = n
    IN IF body = {} THEN <<>> ELSE [n \in 1..Cardinality(idx) |-> rep[nth(n)]]

OneNonDigit(fill) == Len(fill) = 1 /\ fill[1] \notin Digits

\* C1: when a pattern matched and the fill is one non-digit character, no
\* offset inside the span of a redacted group holds a digit, neither in
\* file_id as the pattern loop leaves it nor, followed through the final
\* normalisation, in the file_id returned.
C1_NoDigitInRedactedSpans ==
    (fn_pc = "returned" /\ matched # 0 /\ OneNonDigit(redaction_fill)) =>
        LET t == TaggedNormalise(Tagged(redacted, spans))
        IN /\ Len(redacted) = Len(filename)
           /\ \A sp \in spans : \A o \in sp[1]..(sp[2] - 1) : redacted[o + 1] \notin Digits
           /\ file_id = Some([k \in 1..Len(t) |-> t[k][1]])
           /\ \A k \in 1..Len(t) : t[k][2] => t[k][1] \notin Digits

\* a Mom6Builder daily snapshot name: both groups are redacted, each held digits
C1_Witness ==
    /\ fn_pc = "returned"
    /\ cls = "Mom6Builder"
    /\ matched # 0
    /\ redaction_fill = <<"X">>
    /\ Cardinality(spans) = 2
    /\ \A sp \in spans : \E o \in sp[1]..(sp[2] - 1) : filename[o + 1] \in Digits

\* ------------------------------------------------------------------------
\* Properties of the builder pipeline
\* ------------------------------------------------------------------------

\* exceptions that arise only inside a parser
ParserExceptions == {"OSError", "EmptyFileError", "KeyError", "UnboundLocalError", "AttributeError"}

\* the row of the table for asset p, if the table has exactly one
RowsFor(p) == {i \in 1..Len(df) : df[i].path = p \/ df[i].INVALID_ASSET = p}

\* C2: once the parse step has ended, the table holds exactly one row, valid
\* or sentinel, for each discovered path: none dropped, none duplicated.
C2_OneRecordPerPath ==
    (last = "parse" /\ assets # Nothing) =>
        /\ Len(df) = Len(assets[1])
        /\ \A k \in 1..Len(assets[1]) : Cardinality(RowsFor(assets[1][k])) = 1

\* C3: in every builder family an exception raised in the parser for an asset
\* comes back as a sentinel with the asset's path and the trace; it neither
\* leaves the parser nor ends the parse of the batch.
C3_ParserFailuresBecomeSentinels ==
    /\ failed = "none"
    /\ raised \notin ParserExceptions
    /\ \A i \in 1..Len(results) :
          (results[i] # Nothing /\ files[assets[1][i]] \notin {"ok", "badschema"}) =>
              /\ results[i][1].INVALID_ASSET = assets[1][i]
              /\ results[i][1].TRACEBACK \in ParserExceptions \cup {"ParserError"}

\* every file parses to a sentinel
AllSentinel ==
    \A p \in 1..Len(files) :
        /\ Parser(builder, p, files[p]).exc = "none"
        /\ IsSentinel(Parser(builder, p, files[p]).row)

Range(q) == {q[k] : k \in 1..Len(q)}

\* C9: when paths were found and every one of them parses to a sentinel,
\* build() ends in validate_parser with ParserError and makes neither the
\* parse nor the clean_dataframe call; a set with at least one record that
\* is not a sentinel never ends build() with ParserError.
C9_AllSentinelsStopBuild ==
    /\ (built # "none" /\ Len(files) > 0 /\ AllSentinel) =>
          /\ built \in {"running", "ParserError"}
          /\ Range(steps) \subseteq {"get_assets", "validate_parser"}
          /\ (built = "ParserError" <=> steps = <<"get_assets", "validate_parser">>)
          /\ (built = "running" <=> script # <<>>)
    /\ built = "ParserError" => (Len(files) > 0 /\ AllSentinel)
C9_Witness ==
    /\ built = "ParserError" /\ raised = "ParserError" /\ last = "validate_parser"
    /\ Len(files) = 2 /\ stage = "CREATED"

\* C10: save writes an artifact only when the table is non-empty and comes
\* from a parse followed by clean_dataframe.
C10_SaveNeedsCleanedTable ==
    [][(artifact' # artifact) => (stage = "CLEANED" /\ Len(df) > 0)]_vars

\* ------------------------------------------------------------------------
\* Properties of the version registry
\* ------------------------------------------------------------------------

\* the last request ended and updated the registry
Updating == outcome = "done" /\ ~args[1].no_update
BuiltVersion == args[1].version
Min0 == PreviousMin(before[1].catalog_yaml, before[1].version_dirs, BuiltVersion)
Max0 == PreviousMax(before[1].catalog_yaml, before[1].version_dirs, BuiltVersion)

\* C4: after a build with stamp V that updates the registry, min is the
\* lesser of V and the min before the build (from the registry, else from the
\* version directories): it never moves to a newer stamp, and a build with a
\* newer stamp, with or without an added source, keeps it.
C4_MinNeverRegresses ==
    Updating =>
        /\ catalog_yaml[1].min = (IF BuiltVersion < Min0 THEN BuiltVersion ELSE Min0)
        /\ catalog_yaml[1].min <= Min0
        /\ before[1].catalog_yaml # Nothing => catalog_yaml[1].min <= before[1].catalog_yaml[1].min
        /\ before[1].catalog_yaml = Nothing =>
              \A d \in before[1].version_dirs : catalog_yaml[1].min <= d
C4_Witness ==
    /\ Updating /\ before[1].catalog_yaml # Nothing /\ BuiltVersion > Min0
    /\ before[1].previous = Some(<<"access-om2">>) /\ Len(staged) = 2
    /\ catalog_yaml[1].min = Min0

\* C5 as stated: after a build with stamp V that updates the registry, max is
\* the greater of V and the max before the build, and default equals max.
C5_DefaultIsMax ==
    Updating =>
        /\ catalog_yaml[1].max = (IF BuiltVersion > Max0 THEN BuiltVersion ELSE Max0)
        /\ catalog_yaml[1].default = catalog_yaml[1].max

\* C5 amended: after a build with stamp V that updates the registry, max is
\* the greater of V and the max before the build and default is V; default
\* equals max exactly when no stamp before the build is newer than V.
C5_MaxAndDefault ==
    Updating =>
        /\ catalog_yaml[1].max = (IF BuiltVersion > Max0 THEN BuiltVersion ELSE Max0)
        /\ catalog_yaml[1].max >= Max0
        /\ catalog_yaml[1].default = BuiltVersion
        /\ (catalog_yaml[1].default = catalog_yaml[1].max) <=> (BuiltVersion >= Max0)
C5_Witness ==
    /\ Updating /\ before[1].catalog_yaml # Nothing
    /\ before[1].catalog_yaml[1].max > BuiltVersion
    /\ catalog_yaml[1].max # catalog_yaml[1].default

\* C6: after a build with stamp V that updates the registry, default is V
\* whatever version directories exist; when a stamp newer than V was there
\* before the build (in the registry or, without one, as a directory), max
\* is newer than default.
C6_DefaultIsBuiltVersion ==
    Updating =>
        /\ catalog_yaml[1].default = BuiltVersion
        /\ catalog_yaml[1].default \in catalog_yaml[1].versions
        /\ Max0 > BuiltVersion => catalog_yaml[1].max > catalog_yaml[1].default
        /\ before[1].catalog_yaml = Nothing =>
              \A d \in before[1].version_dirs :
                  d > BuiltVersion => catalog_yaml[1].max > catalog_yaml[1].default
C6_Witness ==
    /\ Updating /\ before[1].catalog_yaml = Nothing
    /\ \E d \in before[1].version_dirs : d > BuiltVersion
    /\ \E d \in before[1].version_dirs : d < BuiltVersion
    /\ catalog_yaml[1].default = BuiltVersion

\* the last request ended, found the content of the preceding build, was not
\* forced and updated the registry
Repeated ==
    /\ Updating
    /\ before[1].previous = Some(staged)
    /\ ~args[1].force

C8_RegistryUpdateIsAtomic ==
    outcome \in {"running", "failed"} => catalog_yaml = before[1].catalog_yaml
C8_Witness ==
    /\ outcome = "failed" /\ Len(staged) = 1 /\ Len(args[1].config_yaml) = 2
    /\ ~args[1].no_update /\ catalog_yaml # Nothing
    /\ BuiltVersion \notin catalog_yaml[1].versions

\* ------------------------------------------------------------------------
\* Properties of build()
\* ------------------------------------------------------------------------

\* C11: a build() over paths that hold no file does not end with an
\* exception: an empty asset list is no error.
C11_EmptyDiscoveryIsNoError ==
    (built # "none" /\ Len(files) = 0) => built \in {"running", "returned"}

BuildOrder == <<"get_assets", "validate_parser", "parse", "clean_dataframe">>
IsPrefix(p, q) == Len(p) <= Len(q) /\ \A k \in 1..Len(p) : p[k] = q[k]

\* the calls of build() that returned
Completed == IF built \in {"running", "returned"} THEN steps ELSE SubSeq(steps, 1, Len(steps) - 1)

\* C12 as stated: the steps of build() come in the order discovery, parse,
\* validation, clean, so validation is entered only after the parse of the
\* batch has completed.
C12_ValidatedAfterParsed ==
    built # "none" =>
        \A i \in 1..Len(steps) :
            steps[i] = "validate_parser" => \E j \in 1..(i - 1) : steps[j] = "parse"

\* C12 amended: build() makes its calls in the order get_assets,
\* validate_parser, parse, clean_dataframe, each after the one before it
\* returned; a call that raises ends build(), which returns only after all
\* four; the table is parsed only after validation and cleaned only after
\* the parse.
C12_BuildOrder ==
    built # "none" =>
        /\ IsPrefix(steps, BuildOrder)
        /\ built = "returned" <=> (script = <<>> /\ Completed = BuildOrder)
        /\ built = "running" <=> script # <<>>
        /\ built = "running" => steps \o script = BuildOrder
        /\ built \notin {"running", "returned"} =>
              (script = <<>> /\ Len(steps) >= 1 /\ steps # Completed)
        /\ \A i \in 1..Len(steps) :
              steps[i] = "parse" => \E j \in 1..(i - 1) : steps[j] = "validate_parser"
C12_Witness ==
    /\ built = "returned" /\ steps = BuildOrder /\ stage = "CLEANED"
    /\ Len(df) = 1 /\ Len(invalid_assets) = 1 /\ last = "clean_dataframe"

\* ------------------------------------------------------------------------
\* Further properties of parse_filename
\* ------------------------------------------------------------------------

Separators == {"-", ".", "_"}
DigitsOf(s) == SelectSeq(s, LAMBDA ch : ch \in Digits)
Unseparated(s) == SelectSeq(s, LAMBDA ch : ch \notin Separators)

\* pattern k of the patterns argument matches the filename at offset 0
MatchesAt0(k) == Len(M(Pattern(patterns[k]), filename, 0, NoGroups)) > 0
NoPatternMatches == \A k \in 1..Len(patterns) : ~MatchesAt0(k)

C14_NoMatchNoRedaction ==
    (fn_pc = "returned" /\ NoPatternMatches) =>
        /\ matched = 0
        /\ timestamp = Nothing
        /\ redacted = filename
        /\ DigitsOf(file_id[1]) = DigitsOf(filename)
        /\ Unseparated(file_id[1]) = Unseparated(filename)
        /\ \A k \in 1..Len(file_id[1]) : file_id[1][k] \in Separators => file_id[1][k] = "_"
C14_Witness ==
    /\ fn_pc = "returned" /\ NoPatternMatches /\ cls = "Mom6Builder"
    /\ Len(DigitsOf(filename)) >= 8 /\ \E k \in 1..Len(filename) : filename[k] = "."
    /\ DigitsOf(file_id[1]) = DigitsOf(filename)

\* C15: whether or not a pattern matched, the returned file_id holds no '-'
\* and no '.', no two '_' in a row, and no '_' at either end.
C15_Normalised ==
    fn_pc = "returned" =>
        /\ \A k \in 1..Len(file_id[1]) : file_id[1][k] \notin {"-", "."}
        /\ \A k \in 1..(Len(file_id[1]) - 1) : ~(file_id[1][k] = "_" /\ file_id[1][k + 1] = "_")
        /\ Len(file_id[1]) > 0 => (file_id[1][1] # "_" /\ file_id[1][Len(file_id[1])] # "_")
C15_Witness ==
    /\ fn_pc = "returned" /\ matched # 0 /\ redaction_fill = <<"_">>
    /\ \E k \in 1..Len(filename) : filename[k] = "-"
    /\ filename[Len(filename)] \in Digits
    /\ Len(file_id[1]) > 0 /\ Len(file_id[1]) < Len(filename)

\* C16: the pattern applied is the first of the list, in the order given,
\* that matches the filename; file_id and timestamp are those the call
\* returns with that pattern alone, whatever later patterns match.
C16_FirstPatternOnly ==
    fn_pc = "returned" =>
        /\ matched = 0 <=> NoPatternMatches
        /\ matched # 0 =>
              /\ MatchesAt0(matched)
              /\ \A j \in 1..(matched - 1) : ~MatchesAt0(j)
              /\ \E r \in {parse_filename(cls, filename, <<patterns[matched]>>, redaction_fill)} :
                    /\ r.file_id = file_id
                    /\ r.timestamp = timestamp
C16_Witness ==
    /\ fn_pc = "returned" /\ cls = "Mom6Builder" /\ patterns = PATTERNS(cls)
    /\ matched = 1 /\ MatchesAt0(2) /\ redaction_fill = <<"X">>
    /\ file_id # parse_filename(cls, filename, <<patterns[2]>>, redaction_fill).file_id

\* ------------------------------------------------------------------------
\* Properties of clean_dataframe and validate_parser
\* ------------------------------------------------------------------------

\* what the parser returns for asset p
Parsed(p) == Parser(builder, p, files[p]).row

\* C17: after clean_dataframe on a parsed table, the table holds no sentinel,
\* every asset whose parse gave a sentinel has that sentinel, with its path
\* and trace, in invalid_assets, every other asset has its row in the table,
\* and the two together account for each asset once.
C17_SentinelsRetained ==
    (last = "clean_dataframe" /\ stage = "CLEANED") =>
        /\ \A i \in 1..Len(df) : ~IsSentinel(df[i])
        /\ \A i \in 1..Len(invalid_assets) : IsSentinel(invalid_assets[i])
        /\ Len(df) + Len(invalid_assets) = Len(assets[1])
        /\ \A k \in 1..Len(assets[1]) :
              IF IsSentinel(Parsed(assets[1][k]))
              THEN /\ Cardinality({i \in 1..Len(invalid_assets) :
                                      invalid_assets[i] = Parsed(assets[1][k])}) = 1
                   /\ RowsFor(assets[1][k]) = {}
              ELSE /\ Cardinality({i \in 1..Len(df) : df[i] = Parsed(assets[1][k])}) = 1
                   /\ \A i \in 1..Len(invalid_assets) :
                         invalid_assets[i].INVALID_ASSET # assets[1][k]
C17_Witness ==
    /\ last = "clean_dataframe" /\ stage = "CLEANED" /\ built = "none"
    /\ Len(df) = 1 /\ Len(invalid_assets) = 1
    /\ invalid_assets[1].TRACEBACK = "EmptyFileError"

\* the assets whose record is the first, in discovery order, that is not a
\* sentinel: one asset at most
Probes ==
    {i \in 1..Len(files) :
        /\ ~IsSentinel(Parsed(i))
        /\ \A j \in 1..i : Parser(builder, j, files[j]).exc = "none"
        /\ \A j \in 1..(i - 1) : IsSentinel(Parsed(j))}

\* C20: validate_parser checks one record against the schema, the first in
\* discovery order that is not a sentinel: it raises ValidationError exactly
\* when that record violates the schema, which ends build(); no other call
\* checks a record, and a violation in any other asset does not end build().
C20_OnlyProbeIsSchemaChecked ==
    /\ Cardinality(Probes) <= 1
    /\ raised = "ValidationError" => last = "validate_parser"
    /\ (last = "validate_parser" /\ assets # Nothing /\ Probes # {}
          /\ ~(built = "running" /\ steps = <<>>)) =>
          \A i \in Probes :
              raised = (IF files[i] = "badschema" THEN "ValidationError" ELSE "none")
    /\ built = "ValidationError" =>
          /\ steps = <<"get_assets", "validate_parser">>
          /\ \E i \in Probes : files[i] = "badschema"
    /\ (built # "none" /\ \E i \in Probes : files[i] = "ok") =>
          /\ built \in {"running", "returned"}
          /\ built = "returned" =>
                \A k \in 1..Len(files) :
                    files[k] = "badschema" => \E r \in 1..Len(df) : df[r] = Parsed(k)
C20_Witness ==
    /\ built = "returned" /\ files = <<"ok", "badschema">>
    /\ Len(df) = 2 /\ ~df[2].conforms /\ ~IsSentinel(df[2])

\* ---------------------------------------------------------------------
\* Properties of a build with no_update
\* ---------------------------------------------------------------------

\* C18 as stated: a build with no_update leaves the registry as it was (none
\* is created if none existed) and the catalog of the stamp is materialized
\* under the directory of the stamp, with one entry per configured source.
C18_NoUpdateStillMaterializes ==
    (outcome = "done" /\ args[1].no_update) =>
        /\ catalog_yaml = before[1].catalog_yaml
        /\ args[1].version \in version_dirs
        /\ catalogs[args[1].version] = Some(args[1].config_yaml)

\* C18: a build with no_update leaves the registry as it was (none is created
\* if none existed); the catalog of the stamp is materialized under the
\* directory of the stamp, with one entry per configured source, when the
\* update is forced or the content differs from that of the preceding build,
\* and otherwise no directory and no catalog is written.
C18_NoUpdateLeavesRegistry ==
    (outcome = "done" /\ args[1].no_update) =>
        LET v == args[1].version
            b == before[1]
        IN /\ catalog_yaml = b.catalog_yaml
           /\ IF args[1].force \/ b.previous # Some(args[1].config_yaml)
              THEN /\ version_dirs = b.version_dirs \cup {v}
                   /\ catalogs[v] = Some(args[1].config_yaml)
                   /\ \A x \in Stamps \ {v} : catalogs[x] = b.catalogs[x]
              ELSE /\ version_dirs = b.version_dirs
                   /\ catalogs = b.catalogs
C18_Witness ==
    /\ outcome = "done" /\ args[1].no_update /\ ~args[1].force
    /\ catalog_yaml # Nothing /\ catalog_yaml = before[1].catalog_yaml
    /\ args[1].version \notin before[1].version_dirs
    /\ catalogs[args[1].version] = Some(staged) /\ Len(staged) = 2

\* ---------------------------------------------------------------------
\* Properties of _check_build_args
\* ---------------------------------------------------------------------

\* the sources that share their name or their experiment_uuid with another
Offending ==
    {i \in 1..Len(args_list) :
        \E j \in 1..Len(args_list) \ {i} :
            \/ args_list[i].name = args_list[j].name
            \/ args_list[i].metadata.experiment_uuid = args_list[j].metadata.experiment_uuid}

\* C19: _check_build_args raises MetadataCheckError exactly when two of the
\* sources share a name or an experiment_uuid, and the error then names
\* offending sources only, one at least; with all names and all uuids
\* distinct it returns.
C19_RejectsRepeatedSources ==
    check_pc \in {"returned", "raised"} =>
        /\ check_pc = "raised" <=> Offending # {}
        /\ check_pc = "returned" => excinfo = Nothing
        /\ check_pc = "raised" =>
              /\ excinfo # Nothing
              /\ excinfo[1] # {}
              /\ excinfo[1] \subseteq {args_list[i].name : i \in Offending}
C19_Witness ==
    /\ check_pc = "raised" /\ Len(args_list) = 2
    /\ args_list[1].name = "exp0" /\ args_list[2].name = "exp1"
    /\ args_list[1].metadata = args_list[2].metadata
    /\ "exp0" \in excinfo[1]

\* ---------------------------------------------------------------------
\* Properties of parse_ncfile
\* ---------------------------------------------------------------------

\* C21: when parse_ncfile has ended, by its return, by EmptyFileError or by
\* an exception raised while the dataset was read, no handle is open: the
\* handle is open inside the with block only, and a handle that was opened
\* has been closed when control is back with the caller.
C21_HandleClosedOnEveryExit ==
    /\ nc_pc \in {"returned", "raised"} => ds # "open"
    /\ ds = "open" => nc_pc \in {"block", "exit"}
    /\ (nc_pc \in {"after", "returned", "raised"} /\ nc_file.readable
          /\ nc_file.date_range # "bad") => ds = "closed"
C21_Witness ==
    /\ nc_pc = "raised" /\ ds = "closed"
    /\ nc_exc \in {"GenericTimeParsingError", "KeyError"}

\* ---------------------------------------------------------------------
\* Properties of the realm a parser assigns
\* ---------------------------------------------------------------------

\* the dict is the sentinel of the file with trace t
IsSentinelOf(d, t) ==
    DOMAIN d = {INVALID_ASSET, TRACEBACK} /\ d.INVALID_ASSET = pr_filename /\ d.TRACEBACK = t

\* the dict is a record with realm r
HasRealm(d, r) == "realm" \in DOMAIN d /\ d.realm = r

\* C22: for a file that parse_ncfile parses, AccessOm3Builder's parser gives
\* realm ocean if the name contains mom6, else wave if it contains ww3, else
\* seaIce if it contains cice; Mom6Builder's gives ocean if the name contains
\* ocean, else seaIce if it contains ice; a name with none of the family's
\* substrings gives the sentinel of the file, and no record is without one of
\* these realms.
C22_RealmPriority ==
    (pr_pc = "returned" /\ pr_ncfile = "none") =>
        LET d == ncinfo_dict[1]
            has(sub) == Contains(sub, pr_filename)
        IN /\ pr_cls = "AccessOm3Builder" =>
                 /\ has(S_mom6) => HasRealm(d, "ocean")
                 /\ (~has(S_mom6) /\ has(S_ww3)) => HasRealm(d, "wave")
                 /\ (~has(S_mom6) /\ ~has(S_ww3) /\ has(S_cice)) => HasRealm(d, "seaIce")
                 /\ (~has(S_mom6) /\ ~has(S_ww3) /\ ~has(S_cice)) => IsSentinelOf(d, "ParserError")
           /\ pr_cls = "Mom6Builder" =>
                 /\ has(S_ocean) => HasRealm(d, "ocean")
                 /\ (~has(S_ocean) /\ has(S_ice)) => HasRealm(d, "seaIce")
                 /\ (~has(S_ocean) /\ ~has(S_ice)) => IsSentinelOf(d, "ParserError")
           /\ \/ IsSentinelOf(d, "ParserError")
              \/ \E r \in {"ocean", "wave", "seaIce"} : HasRealm(d, r)
C22_Witness ==
    /\ pr_pc = "returned" /\ pr_ncfile = "none" /\ pr_cls = "AccessOm3Builder"
    /\ Contains(S_cice, pr_filename) /\ Contains(S_mom6, pr_filename)
    /\ HasRealm(ncinfo_dict[1], "ocean")

====
